---------------------------- MODULE Spec2Model ----------------------------
(***************************************************************************)
(* State-machine model of the stock screening engine                       *)
(* (src/core/screener.py): universe filter, chunked thread-pool run,       *)
(* cached fetch with retry, the two metric calculators, the selection rule *)
(* and the result table; and of the sequential worker thread that drives   *)
(* the same engine symbol by symbol (src/core/worker.py).                  *)
(*                                                                         *)
(* Numbers: prices and volumes are naturals; every derived metric is an    *)
(* exact fraction [n, d].  d = 0 stands for the IEEE values the numpy      *)
(* arithmetic produces: n = 0 is NaN, n = 1 / -1 is +inf / -inf.           *)
(***************************************************************************)
EXTENDS Integers, Sequences, FiniteSets, TLC

VARIABLES
    config,      \* the config dict handed to StockScreener.__init__
    catalog,     \* what ak.stock_info_a_code_name() answers
    market,      \* what ak.stock_zh_a_hist() answers, per code
    faults,      \* transient environment failures still allowed to happen
    disk,        \* cache directory: code -> cache file content
    statistics,  \* StockScreener.statistics
    performance_stats,  \* StockScreener.performance_stats: entries per stage
    main,        \* the thread running screen_stocks
    task,        \* one entry per submitted chunk (future + _process_chunk frame)
    visited,     \* per code: calls of analyze_single_stock made in this run
    worker       \* the ScreeningWorker thread and its stop flag

vars == <<config, catalog, market, faults, disk, statistics, performance_stats,
          main, task, visited, worker>>

----------------------------------------------------------------------------
(* Bounds of the model *)

MaxCatalog == 3          \* catalog length, concurrent runs
MaxChunkSize == 2
MaxWorkers == 2
MaxFaults == 1           \* transient failures, concurrent runs
MaxLen == 3              \* series length, calculator runs
MaxFilterCatalog == 3    \* catalog length, filter runs
MaxRetryTimes == 4       \* configured retry_times, fetch runs
MaxFetchFaults == 3      \* transient failures, fetch runs
MaxRuns == 2             \* calls of screen_stocks on one screener, repeated runs
MaxChipLen == 22         \* series length, cost-distribution runs

(* Program constants *)

Retries == 3
RecentDays == 20
VolShort == 5
VolLong == 20

----------------------------------------------------------------------------
(* Small helpers *)

Min(a, b) == IF a < b THEN a ELSE b

RECURSIVE SumSeq(_)
SumSeq(s) == IF s = <<>> THEN 0 ELSE Head(s) + SumSeq(Tail(s))

Tail_n(s, n) == IF Len(s) <= n THEN s ELSE SubSeq(s, Len(s) - n + 1, Len(s))

RECURSIVE Flatten(_)
Flatten(ss) == IF ss = <<>> THEN <<>> ELSE Head(ss) \o Flatten(Tail(ss))

Range(s) == {s[i] : i \in 1..Len(s)}

----------------------------------------------------------------------------
(* numpy float arithmetic on exact fractions *)

Rat(n, d) == [n |-> n, d |-> d]
NaN == Rat(0, 0)
IsNaN(x) == x.d = 0 /\ x.n = 0
IsFinite(x) == x.d > 0

\* a < b; any comparison with NaN is False
RatLess(a, b) ==
    IF IsNaN(a) \/ IsNaN(b) THEN FALSE
    ELSE IF a.d = 0 /\ b.d = 0 THEN a.n < b.n
    ELSE IF a.d = 0 THEN a.n < 0
    ELSE IF b.d = 0 THEN b.n > 0
    ELSE a.n * b.d < b.n * a.d

RatGreater(a, b) == RatLess(b, a)

RatSub(a, b) ==
    IF IsFinite(a) /\ IsFinite(b) THEN Rat(a.n * b.d - b.n * a.d, a.d * b.d)
    ELSE IF IsNaN(a) \/ IsNaN(b) THEN NaN
    ELSE IF a.d = 0 /\ b.d = 0 THEN (IF a.n = b.n THEN NaN ELSE a)
    ELSE IF a.d = 0 THEN a
    ELSE Rat(0 - b.n, 0)

Sign(n) == IF n > 0 THEN 1 ELSE IF n < 0 THEN -1 ELSE 0

\* a / b on numpy floats: x/0 is +-inf, 0/0 is nan, never an exception
RatDiv(a, b) ==
    IF IsNaN(a) \/ IsNaN(b) THEN NaN
    ELSE IF a.d = 0 /\ b.d = 0 THEN NaN
    ELSE IF a.d = 0 THEN Rat(a.n * (IF b.n < 0 THEN -1 ELSE 1), 0)
    ELSE IF b.d = 0 THEN Rat(0, 1)
    ELSE IF b.n = 0 THEN Rat(Sign(a.n), 0)
    ELSE IF b.n > 0 THEN Rat(a.n * b.d, a.d * b.n)
    ELSE Rat(0 - a.n * b.d, 0 - a.d * b.n)

Abs(n) == IF n < 0 THEN 0 - n ELSE n

RECURSIVE Pow2(_)
Pow2(k) == IF k = 0 THEN 1 ELSE 2 * Pow2(k - 1)

RECURSIVE FloorLog2(_)
FloorLog2(k) == IF k < 2 THEN 0 ELSE 1 + FloorLog2(k \div 2)

----------------------------------------------------------------------------
(* The doubles behind the fractions.  A number the code holds is a double; *)
(* the model holds the exact value [n, d] of the formula that made it and, *)
(* when the formula is one float operation on two such numbers, the        *)
(* operation and its operands (op, x, y).  A number without op is the      *)
(* double nearest to n / d: an integer, or the quotient of two integers.   *)
(* DoubleOf computes the double itself, bit for bit, by redoing the        *)
(* operations in IEEE arithmetic (53 bits, round to nearest, ties to       *)
(* even) on naturals of any size.                                          *)

\* A natural number by its digits in base 2^15, lowest first; 0 is <<>>
RECURSIVE BigOf(_)
BigOf(k) == IF k = 0 THEN <<>> ELSE <<k % 32768>> \o BigOf(k \div 32768)

RECURSIVE BigTrim(_)
BigTrim(a) ==
    IF a = <<>> THEN a
    ELSE IF a[Len(a)] = 0 THEN BigTrim(SubSeq(a, 1, Len(a) - 1))
    ELSE a

Limb(a, i) == IF i <= Len(a) THEN a[i] ELSE 0

RECURSIVE BigSumFrom(_, _, _, _, _, _)
BigSumFrom(a, k, b, m, i, carry) ==
    IF i > Len(a) /\ i > Len(b) THEN (IF carry = 0 THEN <<>> ELSE <<carry>>)
    ELSE LET s == k * Limb(a, i) + m * Limb(b, i) + carry
         IN <<s % 32768>> \o BigSumFrom(a, k, b, m, i + 1, s \div 32768)

\* k * a + m * b, for a single digit k and m one of 1, 0, -1 (a >= b then)
BigSum(a, k, b, m) == BigTrim(BigSumFrom(a, k, b, m, 1, 0))

\* 1, 0, -1 as a > b, a = b, a < b
BigCmp(a, b) ==
    IF a = b THEN 0
    ELSE IF Len(a) # Len(b) THEN (IF Len(a) > Len(b) THEN 1 ELSE -1)
    ELSE LET i == CHOOSE j \in 1..Len(a) :
                      a[j] # b[j] /\ \A h \in (j + 1)..Len(a) : a[h] = b[h]
         IN IF a[i] > b[i] THEN 1 ELSE -1

\* a * 2^k
BigShl(a, k) ==
    IF a = <<>> THEN a
    ELSE (IF k < 15 THEN <<>> ELSE [i \in 1..(k \div 15) |-> 0])
             \o BigSum(a, Pow2(k % 15), <<>>, 0)

BigBitLen(a) == IF a = <<>> THEN 0 ELSE 15 * (Len(a) - 1) + FloorLog2(a[Len(a)]) + 1

\* bit i of a, bit 0 the lowest
BigBit(a, i) == (Limb(a, (i \div 15) + 1) \div Pow2(i % 15)) % 2

\* The number s * (N / D) * 2^e, s the sign (0 for zero).  A double is
\* such a number with D = 1 and N of at most 53 bits.
Quotient(s, N, D, e) == [s |-> s, N |-> N, D |-> D, e |-> e]

\* A step of the long division of u.N by u.D.  In its state st the bit of
\* index pos of N (0 below index 0) is brought down next, r is the rest,
\* q the cnt most significant bits of the quotient found so far, at most
\* 53; guard is the bit found after the 53rd, and cnt is then 54.  The
\* step finds the bit qb of the quotient and the rest r3.
QuotientBit(st, r3, qb) ==
    IF st.q = <<>> /\ qb = 0 THEN [st EXCEPT !.pos = @ - 1, !.r = r3]
    ELSE IF st.cnt < 53
    THEN [st EXCEPT !.pos = @ - 1, !.r = r3, !.cnt = @ + 1,
                    !.q = BigSum(@, 2, BigOf(qb), 1)]
    ELSE [st EXCEPT !.pos = @ - 1, !.r = r3, !.cnt = 54, !.guard = qb]

BringDown(u, st, r2) ==
    IF BigCmp(r2, u.D) >= 0 THEN QuotientBit(st, BigSum(r2, 1, u.D, -1), 1)
    ELSE QuotientBit(st, r2, 0)

DivideStep(u, st) ==
    BringDown(u, st, BigSum(st.r, 2,
                            BigOf(IF st.pos >= 0 THEN BigBit(u.N, st.pos) ELSE 0), 1))

\* The 53 bits of q rounded to nearest by the guard bit and what follows
\* it (the rest, and the bits of N not brought down), a tie to the even one
Rounded(u, st) ==
    Quotient(u.s,
             IF st.guard = 1 /\ (\/ st.r # <<>>
                                 \/ \E i \in 0..st.pos : BigBit(u.N, i) = 1
                                 \/ BigBit(st.q, 0) = 1)
             THEN BigSum(st.q, 1, <<1>>, 1) ELSE st.q,
             <<1>>,
             u.e + st.pos + 2)

RECURSIVE RoundQuotient(_, _)
RoundQuotient(u, st) ==
    IF st.cnt = 54 THEN Rounded(u, st) ELSE RoundQuotient(u, DivideStep(u, st))

\* The double nearest to the number u: u itself when it is a double
Round(u) ==
    IF u.s = 0 \/ u.N = <<>> THEN Quotient(0, <<>>, <<1>>, 0)
    ELSE IF u.D = <<1>> /\ BigBitLen(u.N) <= 53 THEN u
    ELSE RoundQuotient(u, [pos |-> BigBitLen(u.N) - 1, r |-> <<>>, q |-> <<>>,
                           cnt |-> 0, guard |-> 0])

\* xs * X * 2^e + ys * Y * 2^e, xs and ys the signs
AlignedSum(xs, X, ys, Y, e) ==
    IF xs = ys THEN Quotient(xs, BigSum(X, 1, Y, 1), <<1>>, e)
    ELSE IF BigCmp(X, Y) = 0 THEN Quotient(0, <<>>, <<1>>, 0)
    ELSE IF BigCmp(X, Y) > 0 THEN Quotient(xs, BigSum(X, 1, Y, -1), <<1>>, e)
    ELSE Quotient(ys, BigSum(Y, 1, X, -1), <<1>>, e)

\* x + y and x / y for doubles x and y, x * k for a double x and a whole
\* number k (a single digit): the exact result, which the operation rounds
DblAdd(x, y) ==
    IF x.s = 0 THEN y
    ELSE IF y.s = 0 THEN x
    ELSE AlignedSum(x.s, BigShl(x.N, x.e - Min(x.e, y.e)),
                    y.s, BigShl(y.N, y.e - Min(x.e, y.e)), Min(x.e, y.e))

DblMul(x, k) == Quotient(x.s * Sign(k), BigSum(x.N, Abs(k), <<>>, 0), <<1>>, x.e)

DblDiv(x, y) == Quotient(x.s * y.s, x.N, y.N, x.e - y.e)

\* a - b, a / b, a * b on numpy floats, with the operands kept
FloatSub(a, b) ==
    LET v == RatSub(a, b)
    IN IF IsFinite(a) /\ IsFinite(b)
       THEN [n |-> v.n, d |-> v.d, op |-> "sub", x |-> a, y |-> b]
       ELSE v

FloatDiv(a, b) ==
    LET v == RatDiv(a, b)
    IN IF IsFinite(a) /\ IsFinite(b) /\ IsFinite(v)
       THEN [n |-> v.n, d |-> v.d, op |-> "div", x |-> a, y |-> b]
       ELSE v

\* a * k for a whole number k
FloatMul(a, k) == [n |-> a.n * k, d |-> a.d, op |-> "mul", x |-> a, y |-> k]

\* The exact result of the operation that made v, from the doubles of its
\* operands; for a number no operation made, n / d itself
RECURSIVE DoubleOf(_)
Unrounded(v) ==
    IF "op" \notin DOMAIN v THEN Quotient(Sign(v.n), BigOf(Abs(v.n)), BigOf(v.d), 0)
    ELSE CASE v.op = "sub" -> DblAdd(DoubleOf(v.x), [DoubleOf(v.y) EXCEPT !.s = 0 - @])
           [] v.op = "div" -> DblDiv(DoubleOf(v.x), DoubleOf(v.y))
           [] v.op = "mul" -> DblMul(DoubleOf(v.x), v.y)

\* The double a finite number of the model stands for
DoubleOf(v) == Round(Unrounded(v))

----------------------------------------------------------------------------
(* Values *)

None == [kind |-> "none"]
FetchError == [kind |-> "error"]
Absent == [kind |-> "absent"]
Unavailable == [kind |-> "unavailable"]
Frame(rows) == [kind |-> "series", rows |-> rows]
Bar(c, v) == [close |-> c, volume |-> v]

\* the columns of a price frame
Closes(rows) == [i \in 1..Len(rows) |-> rows[i].close]
Volumes(rows) == [i \in 1..Len(rows) |-> rows[i].volume]

----------------------------------------------------------------------------
(* Cost-distribution calculator: calculate_chip_distribution, after the    *)
(* fetch.  df is what _get_stock_data returned, or FetchError when it      *)
(* raised (the except clause then returns None).                           *)

Notionals(rows) == [i \in 1..Len(rows) |-> rows[i].volume * rows[i].close]

\* volume_price_df[close <= current_price]['volume']
ProfitVolumes(rows, current) ==
    [i \in 1..Len(rows) |-> IF rows[i].close <= current THEN rows[i].volume ELSE 0]

MainForceCost_FirstRecords(rows, avg_cost) ==
    IF Len(rows) >= RecentDays
    THEN LET recent == SubSeq(rows, 1, RecentDays)
             vol == SumSeq(Volumes(recent))
         IN IF vol > 0 THEN Rat(SumSeq(Notionals(recent)), vol) ELSE Rat(0, 1)
    ELSE avg_cost

\* recent_days = 20; tail(recent_days) when the frame has that many rows
MainForceCost(rows, avg_cost) ==
    IF Len(rows) >= RecentDays
    THEN LET recent == Tail_n(rows, RecentDays)
             vol == SumSeq(Volumes(recent))
         IN IF vol > 0 THEN Rat(SumSeq(Notionals(recent)), vol) ELSE Rat(0, 1)
    ELSE avg_cost

ChipDistribution_NoLengthGuard(df, cfg) ==
    IF df.kind # "series" \/ Len(df.rows) = 0 THEN None
    ELSE LET rows == df.rows
             total_volume == SumSeq(Volumes(rows))
         IN IF total_volume = 0 THEN None
            ELSE [kind |-> "chip",
                  current_price |-> Rat(rows[Len(rows)].close, 1),
                  avg_cost |-> Rat(SumSeq(Notionals(rows)), total_volume),
                  main_force_cost |->
                      MainForceCost(rows, Rat(SumSeq(Notionals(rows)), total_volume)),
                  profit_ratio |->
                      Rat(SumSeq(ProfitVolumes(rows, rows[Len(rows)].close)), total_volume),
                  total_volume |-> total_volume]

ChipDistribution(df, cfg) ==
    IF df.kind # "series" THEN None
    ELSE IF Len(df.rows) < cfg.min_data_length THEN None
    ELSE IF Len(df.rows) = 0 THEN None      \* iloc[-1] raises IndexError: except -> None
    ELSE LET rows == df.rows
             current_price == rows[Len(rows)].close
             total_volume == SumSeq(Volumes(rows))
             avg_cost == Rat(SumSeq(Notionals(rows)), total_volume)
         IN IF total_volume = 0 THEN None
            ELSE [kind |-> "chip",
                  current_price |-> Rat(current_price, 1),
                  avg_cost |-> avg_cost,
                  main_force_cost |-> MainForceCost(rows, avg_cost),
                  profit_ratio |->
                      Rat(SumSeq(ProfitVolumes(rows, current_price)), total_volume),
                  total_volume |-> total_volume]

----------------------------------------------------------------------------
(* Trend calculator: calculate_pentagram, after the fetch *)

\* series.rolling(window).mean().iloc[-1]: NaN while fewer than window rows
RollingMeanLast(xs, window) ==
    IF Len(xs) < window THEN NaN ELSE Rat(SumSeq(Tail_n(xs, window)), window)

MaLabels == {"ma5", "ma10", "ma20", "ma30", "ma60"}

Pentagram(df, cfg) ==
    IF df.kind # "series" THEN None
    ELSE IF Len(df.rows) < cfg.ma.ma60 THEN None
    ELSE IF Len(df.rows) = 0 THEN None      \* iloc[-1] raises IndexError: except -> None
    ELSE LET rows == df.rows
             volume_ma5 == RollingMeanLast(Volumes(rows), VolShort)
             volume_ma20 == RollingMeanLast(Volumes(rows), VolLong)
             ma_values == [l \in MaLabels |-> RollingMeanLast(Closes(rows), cfg.ma[l])]
         IN [kind |-> "pentagram",
             current_price |-> Rat(rows[Len(rows)].close, 1),
             ma_values |-> ma_values,
             volume_ratio |-> IF RatGreater(volume_ma20, Rat(0, 1))
                              THEN FloatDiv(volume_ma5, volume_ma20) ELSE Rat(0, 1),
             is_trending_up |->
                 /\ RatGreater(ma_values.ma5, ma_values.ma10)
                 /\ RatGreater(ma_values.ma10, ma_values.ma20)
                 /\ RatGreater(ma_values.ma20, ma_values.ma30)
                 /\ RatGreater(ma_values.ma30, ma_values.ma60),
             base_price |-> ma_values.ma20,
             support_price |-> ma_values.ma60]

----------------------------------------------------------------------------
(* Selection rule: the condition and the record of analyze_single_stock *)

Accepts_NoSupportCheck(current_price, avg_cost, support_price, base_price) ==
    /\ RatLess(current_price, avg_cost)
    /\ RatLess(current_price, base_price)

Accepts_NonStrict(current_price, avg_cost, support_price, base_price) ==
    /\ ~RatGreater(current_price, avg_cost)
    /\ ~RatLess(current_price, support_price)
    /\ ~RatGreater(current_price, base_price)

Accepts(current_price, avg_cost, support_price, base_price) ==
    /\ RatLess(current_price, avg_cost)
    /\ RatGreater(current_price, support_price)
    /\ RatLess(current_price, base_price)

SelectRecord(entry, chip_data, pentagram_data) ==
    IF chip_data.kind = "none" \/ pentagram_data.kind = "none" THEN None
    ELSE IF Accepts(pentagram_data.current_price, chip_data.avg_cost,
                    pentagram_data.support_price, pentagram_data.base_price)
    THEN [kind |-> "record",
          code |-> entry.code,
          name |-> entry.name,
          current_price |-> pentagram_data.current_price,
          avg_cost |-> chip_data.avg_cost,
          main_force_cost |-> chip_data.main_force_cost,
          profit_ratio |-> chip_data.profit_ratio,
          base_price |-> pentagram_data.base_price,
          support_price |-> pentagram_data.support_price,
          price_position |->
              FloatDiv(FloatSub(pentagram_data.current_price,
                                pentagram_data.support_price),
                       FloatSub(pentagram_data.base_price,
                                pentagram_data.support_price)),
          volume_ratio |-> pentagram_data.volume_ratio,
          is_trending_up |-> pentagram_data.is_trending_up]
    ELSE None

----------------------------------------------------------------------------
(* Result table: _format_results.  A string is the sequence of its         *)
(* character codes, so that the order of two strings is the order pandas   *)
(* sorts object columns by.                                                *)

RECURSIVE Digits(_)
Digits(k) == IF k < 10 THEN <<48 + k>> ELSE Digits(k \div 10) \o <<48 + (k % 10)>>

\* 1, 0, -1 as the double |x| is above, at, below n / d (d a single digit)
DblCmp(x, n, d) ==
    BigCmp(BigShl(BigSum(x.N, d, <<>>, 0), IF x.e > 0 THEN x.e ELSE 0),
           BigShl(BigOf(n), IF x.e < 0 THEN 0 - x.e ELSE 0))

\* 1 when a tie goes up: the double lies above the half, or on it with q odd
TieUp(side, q) == IF side > 0 THEN 1 ELSE IF side < 0 THEN 0 ELSE q % 2

\* |v| in hundredths as the format prints it: the decimal nearest to the
\* double.  The double lies next to the exact value v.n / v.d; when that
\* is not half-way between two hundredths both round alike, and when it
\* is, the double is computed: it lies above the half (2 * q + 1) / 200,
\* below it, or on it (then the tie goes to the even neighbour).
Hundredths(v) ==
    LET q == (100 * Abs(v.n)) \div v.d
        r == (100 * Abs(v.n)) % v.d
    IN IF 2 * r > v.d THEN q + 1
       ELSE IF 2 * r < v.d THEN q
       ELSE q + TieUp(DblCmp(DoubleOf(v), 2 * q + 1, 200), q)

\* The digits of h hundredths, with the point
Decimal2(h) == Digits(h \div 100) \o <<46, 48 + ((h \div 10) % 10), 48 + (h % 10)>>

\* f"{float(x):.2f}"
Format2(x) ==
    IF IsNaN(x) THEN <<110, 97, 110>>
    ELSE IF x.d = 0 THEN (IF x.n < 0 THEN <<45>> ELSE <<>>) \o <<105, 110, 102>>
    ELSE (IF x.n < 0 THEN <<45>> ELSE <<>>) \o Decimal2(Hundredths(x))

\* f"{float(x):.2f}%"
FormatPercent(x) == Format2(x) \o <<37>>

\* (a - current_price) / current_price * 100
DistancePercent(a, current_price) ==
    LET q == FloatDiv(FloatSub(a, current_price), current_price)
    IN IF IsFinite(q) THEN FloatMul(q, 100) ELSE q

\* a < b on str
RECURSIVE StrLess(_, _)
StrLess(a, b) ==
    IF b = <<>> THEN FALSE
    ELSE IF a = <<>> THEN TRUE
    ELSE IF Head(a) # Head(b) THEN Head(a) < Head(b)
    ELSE StrLess(Tail(a), Tail(b))

\* The row of the formatted frame made from results[index]
\* The columns formatted with two decimals, and those that hold the
\* distance from the price to the value of another column, in percent
numeric_cols ==
    {"current_price", "avg_cost", "main_force_cost", "profit_ratio",
     "price_position", "volume_ratio"}
percent_cols == [distance_to_base |-> "base_price", distance_to_cost |-> "avg_cost"]

FormatRow(r, index) ==
    [c \in numeric_cols |-> Format2(r[c])]
        @@ [c \in DOMAIN percent_cols |->
               FormatPercent(DistancePercent(r[percent_cols[c]], r.current_price))]
        @@ [index |-> index,
            code |-> r.code,
            name |-> r.name,
            base_price |-> r.base_price,
            support_price |-> r.support_price,
            is_trending_up |-> IF r.is_trending_up THEN "up" ELSE "down"]

\* sort_values(['price_position', 'volume_ratio'], ascending=[True, False]):
\* row a is placed before row b
SortsBefore(a, b) ==
    \/ StrLess(a.price_position, b.price_position)
    \/ /\ a.price_position = b.price_position
       /\ StrLess(b.volume_ratio, a.volume_ratio)

RECURSIVE InsertRow(_, _)
InsertRow(x, sorted) ==
    IF sorted = <<>> THEN <<x>>
    ELSE IF SortsBefore(x, Head(sorted)) THEN <<x>> \o sorted
    ELSE <<Head(sorted)>> \o InsertRow(x, Tail(sorted))

\* Rows that compare equal keep their order
RECURSIVE SortValues(_)
SortValues(rows) ==
    IF rows = <<>> THEN <<>>
    ELSE InsertRow(rows[Len(rows)], SortValues(SubSeq(rows, 1, Len(rows) - 1)))

DataFrame(rows) == [kind |-> "frame", rows |-> rows]
EmptyFrame == DataFrame(<<>>)

FormatResults(results) ==
    IF results = <<>> THEN EmptyFrame
    ELSE DataFrame(SortValues([k \in 1..Len(results) |-> FormatRow(results[k], k)]))

----------------------------------------------------------------------------
(* Universe filter: _apply_filter and get_stock_list.  A code is a         *)
(* sequence of digits, a name a sequence of characters.                    *)

Upper(ch) == IF ch = "s" THEN "S" ELSE IF ch = "t" THEN "T" ELSE ch

HasSubstring(s, sub) ==
    \E i \in 1..Len(s) :
        /\ i + Len(sub) - 1 <= Len(s)
        /\ \A j \in 1..Len(sub) : Upper(s[i + j - 1]) = sub[j]

\* name.str.contains('ST|\*ST', case=False, na=False)
NameHasST(name) == HasSubstring(name, <<"S", "T">>) \/ HasSubstring(name, <<"*", "S", "T">>)

\* code.str.startswith(prefix)
StartsWith(code, prefix) ==
    /\ Len(code) >= Len(prefix)
    /\ SubSeq(code, 1, Len(prefix)) = prefix

RECURSIVE SelectByMask(_, _)
SelectByMask(df, condition) ==
    IF df = <<>> THEN <<>>
    ELSE (IF Head(condition) THEN <<Head(df)>> ELSE <<>>)
             \o SelectByMask(Tail(df), Tail(condition))

FilterOrder == <<"exclude_st", "exclude_gem", "exclude_star", "exclude_bse">>
FilterNames == Range(FilterOrder)
NoDetails == [f \in FilterNames |-> None]
Detail(removed, remaining) == [kind |-> "detail", removed |-> removed, remaining |-> remaining]

FilterMask_BsePrefixOfStar(df, filter_name) ==
    [i \in 1..Len(df) |->
        CASE filter_name = "exclude_st" -> ~NameHasST(df[i].name)
          [] filter_name = "exclude_gem" -> ~StartsWith(df[i].code, <<3, 0, 0>>)
          [] filter_name = "exclude_star" -> ~StartsWith(df[i].code, <<6, 8, 8>>)
          [] filter_name = "exclude_bse" -> ~StartsWith(df[i].code, <<6, 8, 8>>)]

\* The mask get_stock_list builds for one switch: True keeps the row
FilterMask(df, filter_name) ==
    [i \in 1..Len(df) |->
        CASE filter_name = "exclude_st" -> ~NameHasST(df[i].name)
          [] filter_name = "exclude_gem" -> ~StartsWith(df[i].code, <<3, 0, 0>>)
          [] filter_name = "exclude_star" -> ~StartsWith(df[i].code, <<6, 8, 8>>)
          [] filter_name = "exclude_bse" -> ~StartsWith(df[i].code, <<8>>)]

ApplyFilter_RemainingBefore(df, condition, filter_name, details) ==
    [df |-> SelectByMask(df, condition),
     details |-> [details EXCEPT ![filter_name] =
                     Detail(Len(df) - Len(SelectByMask(df, condition)), Len(df))]]

ApplyFilter(df, condition, filter_name, details) ==
    LET original_count == Len(df)
        kept == SelectByMask(df, condition)
        filtered_count == original_count - Len(kept)
    IN [df |-> kept,
        details |-> [details EXCEPT ![filter_name] = Detail(filtered_count, Len(kept))]]

\* The four "if filter_switches[...]" blocks, in order, from stage k on
RECURSIVE RunFilters(_, _, _, _)
RunFilters(k, df, details, switches) ==
    IF k > Len(FilterOrder) THEN [df |-> df, details |-> details]
    ELSE IF switches[FilterOrder[k]]
    THEN LET r == ApplyFilter(df, FilterMask(df, FilterOrder[k]), FilterOrder[k], details)
         IN RunFilters(k + 1, r.df, r.details, switches)
    ELSE RunFilters(k + 1, df, details, switches)

\* get_stock_list: the filtered frame and the statistics it leaves
GetStockList(stock_info, cfg, stats) ==
    IF stock_info.kind # "catalog" \/ stock_info.rows = <<>>
    THEN [df |-> <<>>, statistics |-> stats]
    ELSE LET r == RunFilters(1, stock_info.rows, stats.filtered_details, cfg.filter_switches)
         IN [df |-> r.df,
             statistics |-> [stats EXCEPT !.total_stocks = Len(stock_info.rows),
                                          !.filtered_details = r.details,
                                          !.filtered_stocks = Len(r.df)]]

----------------------------------------------------------------------------
(* Chunking in screen_stocks: range(0, len(stock_list), chunk_size) *)

MakeChunks_ShortSlice(stock_list, chunk_size) ==
    [k \in 1..((Len(stock_list) + chunk_size - 1) \div chunk_size) |->
        SubSeq(stock_list, (k - 1) * chunk_size + 1,
               Min(k * chunk_size - 1, Len(stock_list)))]

MakeChunks(stock_list, chunk_size) ==
    [k \in 1..((Len(stock_list) + chunk_size - 1) \div chunk_size) |->
        SubSeq(stock_list, (k - 1) * chunk_size + 1, Min(k * chunk_size, Len(stock_list)))]

----------------------------------------------------------------------------
(* Data fetcher: _get_cached_data, _save_to_cache, _get_stock_data and the *)
(* retry_on_exception wrapper around it.  e is the set of environment      *)
(* failures that happen during one attempt: "read" (the cache file exists  *)
(* but read_pickle raises), "upstream" (the service raises), "write"       *)
(* (to_pickle raises before it has opened the file), "truncate" (to_pickle *)
(* raises once the file is opened for writing: what is left is a file that *)
(* exists and cannot be read).                                             *)

File(rows) == [kind |-> "file", rows |-> rows]
Corrupt == [kind |-> "corrupt"]

GetCachedData_ReadFailureRaises(file, e) ==
    IF file.kind = "file"
    THEN (IF "read" \in e THEN FetchError ELSE Frame(file.rows))
    ELSE IF file.kind = "corrupt" THEN FetchError
    ELSE None

\* read_pickle of a file that cannot be read raises: None, as for a miss
GetCachedData(file, e) ==
    IF file.kind = "file"
    THEN (IF "read" \in e THEN None ELSE Frame(file.rows))
    ELSE None

SaveToCache(file, df, e) ==
    IF "write" \in e THEN file
    ELSE IF "truncate" \in e THEN Corrupt
    ELSE File(df.rows)

\* One execution of the body of _get_stock_data.
\*   df: the frame returned, or FetchError when the body raises;
\*   file: the cache file afterwards; called: upstream invocations made
GetStockData(file, answer, e) ==
    LET cached_data == GetCachedData(file, e)
    IN IF cached_data.kind # "none"
       THEN [df |-> cached_data, file |-> file, called |-> 0]
       ELSE IF answer.kind = "unavailable" \/ "upstream" \in e
       THEN [df |-> FetchError, file |-> file, called |-> 1]
       ELSE [df |-> Frame(answer.rows),
             file |-> SaveToCache(file, Frame(answer.rows), e),
             called |-> 1]

\* One iteration of the wrapper's "for attempt in range(retries)":
\*   status "returned": the call returns df; "raised": the loop is exhausted
\*   and last_exception is raised; "retry": sleep, then the next iteration
RetryOnException(attempt, once) ==
    IF once.df.kind # "error" THEN "returned"
    ELSE IF attempt < Retries - 1 THEN "retry"
    ELSE "raised"

\* The failures that can take effect in one attempt, given what it meets
PossibleFaults(file, answer) ==
    {e \in SUBSET {"read", "upstream", "write", "truncate"} :
        /\ "read" \in e => file.kind = "file"
        /\ "upstream" \in e =>
               /\ file.kind # "file" \/ "read" \in e
               /\ answer.kind = "series"
        /\ "write" \in e =>
               /\ file.kind # "file" \/ "read" \in e
               /\ answer.kind = "series"
               /\ "upstream" \notin e
        /\ "truncate" \in e =>
               /\ file.kind # "file" \/ "read" \in e
               /\ answer.kind = "series"
               /\ "upstream" \notin e
               /\ "write" \notin e}

----------------------------------------------------------------------------
(* The frame of _process_chunk for one chunk, with the locals of the       *)
(* analyze_single_stock call in progress.  guard_at tells where in the     *)
(* call _clear_cache_if_needed has run; e is the set of failures met by    *)
(* the latest fetch attempt.                                               *)

FreshLocals ==
    [pc |-> "chip", attempt |-> 0, calls |-> 0,
     df1 |-> None, df2 |-> None, chip_data |-> None, result |-> None, reg |-> 0,
     guard_at |-> "none", e |-> {}]

NewTask(chunk) ==
    [state |-> "queued", chunk |-> chunk, i |-> 1, chunk_results |-> <<>>,
     local |-> FreshLocals]

\* The for loop of _process_chunk moves on to the next pair, or returns
NextSymbol(t) ==
    IF t.i < Len(t.chunk)
    THEN [t EXCEPT !.i = t.i + 1, !.local = FreshLocals]
    ELSE [t EXCEPT !.i = t.i + 1, !.local = FreshLocals, !.state = "finished"]

\* An exception reaches "except Exception" of _process_chunk
OnSymbolException_AbortsChunk(t) ==
    [t EXCEPT !.i = Len(t.chunk) + 1, !.local = FreshLocals, !.state = "raised"]

OnSymbolException(t) == [t EXCEPT !.local.pc = "fail_read"]

\* analyze_single_stock returned result to _process_chunk
OnAnalyzed(t, result) ==
    [t EXCEPT !.local.result = result,
              !.local.pc = IF result.kind = "record" THEN "succ_read" ELSE "proc_read"]

Running(c) == c \in DOMAIN task /\ task[c].state = "running"
Entry(c) == task[c].chunk[task[c].i]

\* calculate_chip_distribution got df from its fetch (FetchError: it raised)
AfterChipFetch(t, df, cfg) ==
    LET chip_data == ChipDistribution(df, cfg)
    IN IF chip_data.kind = "none"
       THEN OnAnalyzed([t EXCEPT !.local.df1 = df], None)
       ELSE [t EXCEPT !.local.df1 = df, !.local.chip_data = chip_data,
                      !.local.pc = "penta", !.local.attempt = 0, !.local.calls = 0]

\* calculate_pentagram got df from its fetch; then the selection rule
AfterPentaFetch(t, df, cfg) ==
    OnAnalyzed([t EXCEPT !.local.df2 = df],
               SelectRecord(t.chunk[t.i], t.local.chip_data, Pentagram(df, cfg)))

\* _measure_time: the stages whose timer appends an entry.  The timer of a
\* with block is skipped when the block is left by an exception.
Stages == {"calculate_chip_distribution", "calculate_pentagram", "analyze_single_stock"}
NoTimings == [s \in Stages |-> 0]

\* The with block of a calculator ends normally on the frame df
CalculatorTimed(df, min_length) ==
    /\ df.kind = "series"
    /\ Len(df.rows) < min_length \/ Len(df.rows) > 0

MeasureTime(stats, timed) == [s \in Stages |-> stats[s] + timed[s]]

\* One attempt of the fetch in progress for task t, under failures e
FetchAttempt(t, file, answer, e, cfg) ==
    LET once == GetStockData(file, answer, e)
        status == RetryOnException(t.local.attempt, once)
        t1 == [t EXCEPT !.local.calls = @ + once.called, !.local.e = e]
        t2 == IF status = "retry" THEN [t1 EXCEPT !.local.attempt = @ + 1]
              ELSE IF t.local.pc = "chip" THEN AfterChipFetch(t1, once.df, cfg)
              ELSE AfterPentaFetch(t1, once.df, cfg)
    IN [file |-> once.file,
        t |-> t2,
        timed |->
            [s \in Stages |->
                IF status = "retry" THEN 0
                ELSE CASE s = "calculate_chip_distribution" ->
                            IF t.local.pc = "chip"
                               /\ CalculatorTimed(once.df, cfg.min_data_length)
                            THEN 1 ELSE 0
                       [] s = "calculate_pentagram" ->
                            IF t.local.pc = "penta"
                               /\ CalculatorTimed(once.df, cfg.ma.ma60)
                            THEN 1 ELSE 0
                       [] s = "analyze_single_stock" ->
                            IF t2.local.pc \notin {"chip", "penta"} THEN 1 ELSE 0]]

\* chunk_results.append(result)
AppendResult_Prepends(chunk_results, result) == <<result>> \o chunk_results

AppendResult(chunk_results, result) == Append(chunk_results, result)

----------------------------------------------------------------------------
(* Actions of the pool threads.  _clear_cache_if_needed reads the process  *)
(* memory (a call that may raise) and clears self.cache, a dict nothing    *)
(* ever writes to: it changes no state.                                    *)

StartChunk_NoCeiling(c) ==
    /\ c \in DOMAIN task
    /\ task[c].state = "queued"
    /\ \A b \in 1..(c - 1) : task[b].state # "queued"
    /\ task' = [task EXCEPT ![c].state = "running"]
    /\ UNCHANGED <<config, catalog, market, faults, disk, statistics,
                   performance_stats, main, visited, worker>>

\* A pool thread takes the oldest queued chunk
StartChunk(c) ==
    /\ c \in DOMAIN task
    /\ task[c].state = "queued"
    /\ \A b \in 1..(c - 1) : task[b].state # "queued"
    /\ Cardinality({b \in DOMAIN task : task[b].state = "running"}) < config.max_workers
    /\ task' = [task EXCEPT ![c].state = "running"]
    /\ UNCHANGED <<config, catalog, market, faults, disk, statistics,
                   performance_stats, main, visited, worker>>

\* analyze_single_stock starts (memory guard, which may raise), and
\* calculate_chip_distribution makes one attempt of its fetch
ChipStep(c) ==
    /\ Running(c)
    /\ task[c].local.pc = "chip"
    /\ LET t == [task[c] EXCEPT !.local.guard_at = "before_fetch"]
           code == Entry(c).code
           first == t.local.attempt = 0
       IN /\ visited' = IF first THEN [visited EXCEPT ![code] = @ + 1] ELSE visited
          /\ \E guard_raises \in (IF first /\ faults > 0 THEN BOOLEAN ELSE {FALSE}) :
                IF guard_raises
                THEN /\ task' = [task EXCEPT ![c] = OnSymbolException(t)]
                     /\ faults' = faults - 1
                     /\ disk' = disk
                     /\ performance_stats' = performance_stats
                ELSE \E e \in PossibleFaults(disk[code], market[code]) :
                        /\ Cardinality(e) <= faults
                        /\ LET r == FetchAttempt(t, disk[code], market[code], e, config)
                           IN /\ task' = [task EXCEPT ![c] = r.t]
                              /\ disk' = [disk EXCEPT ![code] = r.file]
                              /\ performance_stats' =
                                     MeasureTime(performance_stats, r.timed)
                        /\ faults' = faults - Cardinality(e)
    /\ UNCHANGED <<config, catalog, market, statistics, main, worker>>

\* calculate_pentagram makes one attempt of its fetch
PentaStep(c) ==
    /\ Running(c)
    /\ task[c].local.pc = "penta"
    /\ LET code == Entry(c).code
       IN \E e \in PossibleFaults(disk[code], market[code]) :
             /\ Cardinality(e) <= faults
             /\ LET r == FetchAttempt(task[c], disk[code], market[code], e, config)
                IN /\ task' = [task EXCEPT ![c] = r.t]
                   /\ disk' = [disk EXCEPT ![code] = r.file]
                   /\ performance_stats' = MeasureTime(performance_stats, r.timed)
             /\ faults' = faults - Cardinality(e)
    /\ UNCHANGED <<config, catalog, market, statistics, main, visited, worker>>

CounterOf(pc) ==
    CASE pc \in {"succ_read", "succ_write"} -> "successful_stocks"
      [] pc \in {"proc_read", "proc_write"} -> "processed_stocks"
      [] pc \in {"fail_read", "fail_write"} -> "failed_stocks"

\* self.statistics[k] += 1, first half: the value is read
LoadCounter(c) ==
    /\ Running(c)
    /\ task[c].local.pc \in {"succ_read", "proc_read", "fail_read"}
    /\ LET t == task[c]
           pc == t.local.pc
       IN task' = [task EXCEPT ![c] =
              [t EXCEPT !.local.reg = statistics[CounterOf(pc)],
                        !.local.pc = CASE pc = "succ_read" -> "succ_write"
                                       [] pc = "proc_read" -> "proc_write"
                                       [] pc = "fail_read" -> "fail_write",
                        !.chunk_results = IF pc = "succ_read"
                                          THEN AppendResult(@, t.local.result) ELSE @]]
    /\ UNCHANGED <<config, catalog, market, faults, disk, statistics,
                   performance_stats, main, visited, worker>>

\* self.statistics[k] += 1, second half: value read + 1 is stored
StoreCounter(t, stats) ==
    [stats EXCEPT ![CounterOf(t.local.pc)] = t.local.reg + 1]

WriteCounter(c) ==
    /\ Running(c)
    /\ task[c].local.pc \in {"succ_write", "proc_write", "fail_write"}
    /\ statistics' = StoreCounter(task[c], statistics)
    /\ task' = [task EXCEPT ![c] =
           IF task[c].local.pc = "succ_write"
           THEN [task[c] EXCEPT !.local.pc = "proc_read"]
           ELSE NextSymbol(task[c])]
    /\ UNCHANGED <<config, catalog, market, faults, disk, performance_stats,
                   main, visited, worker>>

----------------------------------------------------------------------------
(* Actions of the thread that calls screen_stocks *)

CatalogAnswer == [kind |-> "catalog", rows |-> catalog]
CatalogFailure == [kind |-> "failed"]

NoVisits == [code \in DOMAIN visited |-> 0]

Progress_Remaining(i, total_chunks) ==
    DoubleOf(FloatMul(FloatDiv(Rat(total_chunks - i, 1), Rat(total_chunks, 1)), 100))

\* progress = (i / total_chunks) * 100, the double itself: the quotient is
\* rounded to a double, and the product of that double and 100 is rounded
\* again
Progress(i, total_chunks) ==
    DoubleOf(FloatMul(FloatDiv(Rat(i, 1), Rat(total_chunks, 1)), 100))

\* Progress(i, total_chunks) for every run the catalogs allow, each value
\* computed once
ProgressReports ==
    [total_chunks \in 1..(MaxCatalog + MaxFilterCatalog) |->
        [i \in 1..total_chunks |-> Progress(i, total_chunks)]]

\* screen_stocks, called on the screener (again), up to the submission of
\* every chunk.  error_logged: logger.error was called for an empty list.
ScreenStocks ==
    /\ main.pc \in {"idle", "done"}
    /\ main.calls_left > 0
    /\ worker.pc = "idle"
    /\ \E stock_info \in {CatalogAnswer} \cup (IF faults > 0 THEN {CatalogFailure} ELSE {}) :
          LET reset == [statistics EXCEPT !.processed_stocks = 0,
                                          !.successful_stocks = 0,
                                          !.failed_stocks = 0]
              got == GetStockList(stock_info, config, reset)
              stock_chunks == MakeChunks(got.df, config.chunk_size)
              run == [main EXCEPT !.calls_left = @ - 1,
                                  !.universe_failed = stock_info.kind = "failed",
                                  !.stock_list = got.df,
                                  !.results = <<>>,
                                  !.completed = 0,
                                  !.progress = <<>>,
                                  !.total_chunks = Len(stock_chunks),
                                  !.returned = None,
                                  !.error_logged = got.df = <<>>]
          IN /\ statistics' = got.statistics
             /\ faults' = IF stock_info.kind = "failed" THEN faults - 1 ELSE faults
             /\ IF got.df = <<>>
                THEN /\ main' = [run EXCEPT !.pc = "done", !.outcome = "empty",
                                            !.returned = EmptyFrame]
                     /\ task' = <<>>
                ELSE /\ main' = [run EXCEPT !.pc = "collecting", !.outcome = "none"]
                     /\ task' = [k \in 1..Len(stock_chunks) |-> NewTask(stock_chunks[k])]
    /\ visited' = NoVisits
    /\ UNCHANGED <<config, catalog, market, disk, performance_stats, worker>>

Collect_Replaces(c) ==
    /\ main.pc = "collecting"
    /\ c \in DOMAIN task
    /\ task[c].state = "finished"
    /\ main' = [main EXCEPT !.results = task[c].chunk_results,
                            !.completed = @ + 1,
                            !.progress =
                                Append(@, ProgressReports[main.total_chunks]
                                                         [main.completed + 1])]
    /\ task' = [task EXCEPT ![c].state = "collected"]
    /\ UNCHANGED <<config, catalog, market, faults, disk, statistics,
                   performance_stats, visited, worker>>

\* One round of "for i, future in enumerate(as_completed(futures), 1)"
Collect(c) ==
    /\ main.pc = "collecting"
    /\ c \in DOMAIN task
    /\ task[c].state = "finished"
    /\ main' = [main EXCEPT !.results = @ \o task[c].chunk_results,
                            !.completed = @ + 1,
                            !.progress =
                                Append(@, ProgressReports[main.total_chunks]
                                                         [main.completed + 1])]
    /\ task' = [task EXCEPT ![c].state = "collected"]
    /\ UNCHANGED <<config, catalog, market, faults, disk, statistics,
                   performance_stats, visited, worker>>

\* The pool is shut down; the memory guard runs once more (it may raise,
\* and nothing in screen_stocks catches that); screen_stocks returns
Finish ==
    /\ main.pc = "collecting"
    /\ \A c \in DOMAIN task : task[c].state = "collected"
    /\ \E guard_raises \in (IF faults > 0 THEN BOOLEAN ELSE {FALSE}) :
          /\ faults' = IF guard_raises THEN faults - 1 ELSE faults
          /\ main' = IF guard_raises
                     THEN [main EXCEPT !.pc = "done", !.outcome = "raised"]
                     ELSE IF main.results = <<>>
                     THEN [main EXCEPT !.pc = "done", !.outcome = "empty",
                                       !.returned = EmptyFrame]
                     ELSE [main EXCEPT !.pc = "done", !.outcome = "table",
                                       !.returned = FormatResults(main.results)]
    /\ UNCHANGED <<config, catalog, market, disk, statistics, performance_stats,
                   task, visited, worker>>

----------------------------------------------------------------------------
(* The ScreeningWorker thread (src/core/worker.py): one screener, the      *)
(* filtered universe analyzed symbol by symbol in a single loop, with a    *)
(* stop flag the GUI thread may clear at any time.                         *)

NewStatistics ==
    [total_stocks |-> 0, filtered_stocks |-> 0, filtered_details |-> NoDetails,
     processed_stocks |-> 0, successful_stocks |-> 0, failed_stocks |-> 0]

NewWorker ==
    [pc |-> "idle", is_running |-> TRUE, frame |-> NewTask(<<>>),
     results |-> <<>>, processed_stocks |-> 0, successful_stocks |-> 0,
     failures_logged |-> 0, progress |-> <<>>, signal |-> "none", table |-> None,
     screener |-> FALSE, stop_requested |-> FALSE, stop_pc |-> "none", stop_i |-> 0]

\* start_screening: the worker is constructed and its thread started
WorkerStart ==
    /\ worker.pc = "idle"
    /\ main.pc = "idle"
    /\ worker' = [worker EXCEPT !.pc = "started"]
    /\ UNCHANGED <<config, catalog, market, faults, disk, statistics,
                   performance_stats, main, task, visited>>

\* stop(), from another thread, on a worker that has been constructed: the
\* flag is cleared, whatever the thread is doing and also once run has
\* ended.  stop_requested, stop_pc and stop_i note the first request made
\* while run was executing (after its first statement), and where the run
\* and its loop stood then.
Stop ==
    /\ worker.pc # "idle"
    /\ worker' = IF worker.pc \in {"started", "done"} \/ ~worker.is_running
                 THEN [worker EXCEPT !.is_running = FALSE]
                 ELSE [worker EXCEPT !.is_running = FALSE,
                                     !.stop_requested = TRUE,
                                     !.stop_pc = worker.pc,
                                     !.stop_i = IF worker.pc = "analyze"
                                                THEN worker.frame.i
                                                ELSE worker.frame.i - 1]
    /\ UNCHANGED <<config, catalog, market, faults, disk, statistics,
                   performance_stats, main, task, visited>>

\* run begins: self.is_running = True
WorkerRun ==
    /\ worker.pc = "started"
    /\ worker' = [worker EXCEPT !.is_running = TRUE, !.pc = "constructing"]
    /\ UNCHANGED <<config, catalog, market, faults, disk, statistics,
                   performance_stats, main, task, visited>>

\* self.screener = StockScreener(self.config); the thread then waits for
\* the catalog inside get_stock_list.  When the constructor raises (the
\* cache directory cannot be made), "except Exception" of run emits
\* error_occurred and the status of a failed run: no screener exists, and
\* the flag is left as it stands.
WorkerNewScreener ==
    /\ worker.pc = "constructing"
    /\ \E init_raises \in (IF faults > 0 THEN BOOLEAN ELSE {FALSE}) :
          IF init_raises
          THEN /\ worker' = [worker EXCEPT !.pc = "done",
                                           !.signal = "error_run_failed"]
               /\ faults' = faults - 1
               /\ UNCHANGED <<statistics, performance_stats>>
          ELSE /\ worker' = [worker EXCEPT !.pc = "listing", !.screener = TRUE]
               /\ statistics' = NewStatistics
               /\ performance_stats' = NoTimings
               /\ faults' = faults
    /\ UNCHANGED <<config, catalog, market, disk, main, task, visited>>

\* get_stock_list answers: the universe is filtered; an empty list ends
\* the run with the error signal
WorkerGetStockList ==
    /\ worker.pc = "listing"
    /\ \E stock_info \in {CatalogAnswer} \cup (IF faults > 0 THEN {CatalogFailure} ELSE {}) :
          LET got == GetStockList(stock_info, config, statistics)
          IN /\ statistics' = got.statistics
             /\ faults' = IF stock_info.kind = "failed" THEN faults - 1 ELSE faults
             /\ worker' =
                    IF got.df = <<>>
                    THEN [worker EXCEPT !.pc = "done", !.signal = "error_no_universe"]
                    ELSE [worker EXCEPT !.pc = "check",
                                        !.frame = [NewTask(got.df) EXCEPT
                                                      !.state = "running"]]
    /\ UNCHANGED <<config, catalog, market, disk, performance_stats, main, task,
                   visited>>

WorkerCheck_IgnoresStop(w) ==
    IF w.frame.i > Len(w.frame.chunk) THEN [w EXCEPT !.pc = "after"]
    ELSE [w EXCEPT !.pc = "analyze"]

\* The head of the for loop and "if not self.is_running: break"
WorkerCheck(w) ==
    IF w.frame.i > Len(w.frame.chunk) THEN [w EXCEPT !.pc = "after"]
    ELSE IF ~w.is_running THEN [w EXCEPT !.pc = "after"]
    ELSE [w EXCEPT !.pc = "analyze"]

WorkerNext ==
    /\ worker.pc = "check"
    /\ worker' = WorkerCheck(worker)
    /\ UNCHANGED <<config, catalog, market, faults, disk, statistics,
                   performance_stats, main, task, visited>>

\* progress = int((i + 1) / total_stocks * 100), here with i counted from
\* 1.  The quotient is a double, the product is rounded to a double, and
\* int truncates.  The double lies next to 100 * i / total_stocks: when
\* that is no whole number both truncate alike; when the quotient is a
\* whole number every step is exact; otherwise the double is computed,
\* and it may lie below the whole number k.
WorkerProgress(i, total_stocks) ==
    LET k == (100 * i) \div total_stocks
    IN IF (100 * i) % total_stocks # 0 \/ i % total_stocks = 0 THEN k
       ELSE IF DblCmp(DoubleOf(FloatMul(FloatDiv(Rat(i, 1), Rat(total_stocks, 1)),
                                        100)), k, 1) < 0
       THEN k - 1
       ELSE k

\* The rest of the loop body once analyze_single_stock has returned or
\* raised for the symbol of frame t
WorkerAfterSymbol(w, t) ==
    [w EXCEPT !.results = IF t.local.pc = "succ_read"
                          THEN Append(@, t.local.result) ELSE @,
              !.successful_stocks = IF t.local.pc = "succ_read" THEN @ + 1 ELSE @,
              !.processed_stocks = IF t.local.pc = "fail_read" THEN @ ELSE @ + 1,
              !.failures_logged = IF t.local.pc = "fail_read" THEN @ + 1 ELSE @,
              !.progress = Append(@, WorkerProgress(t.i, Len(t.chunk))),
              !.frame = [t EXCEPT !.i = t.i + 1, !.local = FreshLocals],
              !.pc = "check"]

WorkerStep(w, t) ==
    IF t.local.pc \in {"chip", "penta"} THEN [w EXCEPT !.frame = t]
    ELSE WorkerAfterSymbol(w, t)

\* One step of analyze_single_stock for the symbol of the loop: the memory
\* guard and an attempt of the first fetch, or an attempt of the second
WorkerAnalyze ==
    /\ worker.pc = "analyze"
    /\ LET t == [worker.frame EXCEPT !.local.guard_at = "before_fetch"]
           code == t.chunk[t.i].code
           first == t.local.pc = "chip" /\ t.local.attempt = 0
       IN /\ visited' = IF first THEN [visited EXCEPT ![code] = @ + 1] ELSE visited
          /\ \E guard_raises \in (IF first /\ faults > 0 THEN BOOLEAN ELSE {FALSE}) :
                IF guard_raises
                THEN /\ worker' = WorkerStep(worker, OnSymbolException(t))
                     /\ faults' = faults - 1
                     /\ disk' = disk
                     /\ performance_stats' = performance_stats
                ELSE \E e \in PossibleFaults(disk[code], market[code]) :
                        /\ Cardinality(e) <= faults
                        /\ LET r == FetchAttempt(t, disk[code], market[code], e, config)
                           IN /\ worker' = WorkerStep(worker, r.t)
                              /\ disk' = [disk EXCEPT ![code] = r.file]
                              /\ performance_stats' =
                                     MeasureTime(performance_stats, r.timed)
                        /\ faults' = faults - Cardinality(e)
    /\ UNCHANGED <<config, catalog, market, statistics, main, task>>

\* After the loop: "if not self.is_running" reads the flag
WorkerPostLoop ==
    /\ worker.pc = "after"
    /\ worker' = IF ~worker.is_running
                 THEN [worker EXCEPT !.pc = "done", !.signal = "status_cancelled"]
                 ELSE [worker EXCEPT !.pc = "postcheck"]
    /\ UNCHANGED <<config, catalog, market, faults, disk, statistics,
                   performance_stats, main, task, visited>>

\* The flag is not read again: "if not results" ends the run with the
\* status of a run without candidates; otherwise the frame is formatted
\* and sorted, and result_ready is emitted
WorkerEmit ==
    /\ worker.pc = "postcheck"
    /\ worker' = IF worker.results = <<>>
                 THEN [worker EXCEPT !.pc = "done", !.signal = "status_no_candidates"]
                 ELSE [worker EXCEPT !.pc = "done", !.signal = "result_ready",
                                     !.table = FormatResults(worker.results)]
    /\ UNCHANGED <<config, catalog, market, faults, disk, statistics,
                   performance_stats, main, task, visited>>

Next ==
    \/ ScreenStocks
    \/ \E c \in DOMAIN task : StartChunk(c)
    \/ \E c \in DOMAIN task : ChipStep(c)
    \/ \E c \in DOMAIN task : PentaStep(c)
    \/ \E c \in DOMAIN task : LoadCounter(c)
    \/ \E c \in DOMAIN task : WriteCounter(c)
    \/ \E c \in DOMAIN task : Collect(c)
    \/ Finish
    \/ WorkerStart
    \/ Stop
    \/ WorkerRun
    \/ WorkerNewScreener
    \/ WorkerGetStockList
    \/ WorkerNext
    \/ WorkerAnalyze
    \/ WorkerPostLoop
    \/ WorkerEmit

----------------------------------------------------------------------------
(* Inputs: catalog entries, the series the upstream service holds for      *)
(* them, and configurations                                                *)

Stock(code, name) == [code |-> code, name |-> name]

StockA == Stock(<<6, 0, 0, 0, 0, 0>>, <<"A">>)
StockM == Stock(<<6, 0, 0, 5, 1, 9>>, <<"M">>)
StockU == Stock(<<6, 0, 0, 0, 0, 1>>, <<"U">>)
StockZ == Stock(<<6, 0, 0, 0, 0, 2>>, <<"Z">>)
StockH == Stock(<<6, 0, 0, 0, 0, 3>>, <<"H">>)
StockR == Stock(<<6, 0, 0, 0, 0, 4>>, <<"R">>)
StockB == Stock(<<3, 0, 0, 0, 0, 1>>, <<"B">>)
StockN == Stock(<<8, 3, 0, 0, 0, 1>>, <<"N">>)
StockST == Stock(<<0, 0, 0, 0, 0, 2>>, <<"*", "S", "T", "C">>)
StockLowerSt == Stock(<<6, 0, 0, 0, 0, 5>>, <<"s", "t", "D">>)

MainRing == <<StockA, StockM, StockU, StockZ, StockH, StockR, StockB>>
FilterPool == {StockA, StockB, Stock(<<6, 8, 8, 0, 0, 1>>, <<"K">>), StockN, StockST,
               StockLowerSt, Stock(<<3, 0, 1, 0, 0, 0>>, <<"S", "A", "T">>)}
FetchPool == {StockA, StockU, StockZ, StockH}
AllCodes == {x.code : x \in Range(MainRing) \cup FilterPool}

AcceptedRows == <<Bar(1, 1), Bar(4, 3), Bar(3, 1)>>
AcceptedRows2 == <<Bar(1, 0), Bar(4, 3), Bar(3, 1)>>
ZeroVolumeRows == <<Bar(2, 0), Bar(3, 0), Bar(2, 0)>>
ShortRows == <<Bar(3, 1)>>
RejectedRows == <<Bar(1, 1), Bar(2, 1), Bar(3, 1)>>

PoolMarket ==
    [code \in AllCodes |->
        CASE code = StockM.code -> Frame(AcceptedRows2)
          [] code = StockU.code -> Unavailable
          [] code = StockZ.code -> Frame(ZeroVolumeRows)
          [] code = StockH.code -> Frame(ShortRows)
          [] code = StockR.code -> Frame(RejectedRows)
          [] code = StockST.code -> Frame(RejectedRows)
          [] code = StockN.code -> Unavailable
          [] OTHER -> Frame(AcceptedRows)]

\* Period maps short enough for the bounded series
Periods(p5, p10, p20, p30, p60) ==
    [ma5 |-> p5, ma10 |-> p10, ma20 |-> p20, ma30 |-> p30, ma60 |-> p60]
ShortPeriods == Periods(1, 1, 2, 2, 3)
PeriodChoices == {ShortPeriods, Periods(1, 1, 3, 2, 2), Periods(1, 1, 5, 2, 2)}

Switches(st, gem, star, bse) ==
    [exclude_st |-> st, exclude_gem |-> gem, exclude_star |-> star, exclude_bse |-> bse]
DefaultSwitches == Switches(TRUE, TRUE, TRUE, TRUE)
DefaultChunkSize == 512

\* The least min_data_length of the bounded runs, whose series are short
ShortDataLength == 2

Config(chunk_size, max_workers, retry_times, min_data_length, ma, switches) ==
    [chunk_size |-> chunk_size, max_workers |-> max_workers,
     retry_times |-> retry_times, min_data_length |-> min_data_length,
     ma |-> ma, filter_switches |-> switches]

\* DEFAULT_CONFIG, which is also what the control panel builds
DefaultConfig ==
    Config(DefaultChunkSize, 24, 3, 30, Periods(5, 10, 20, 30, 60), DefaultSwitches)

\* Series of the calculator runs
Bars == {Bar(c, v) : c \in {1, 2, 3, 4}, v \in {0, 1, 3}}
RECURSIVE SeqsUpTo(_, _)
SeqsUpTo(S, n) ==
    IF n = 0 THEN {<<>>}
    ELSE LET shorter == SeqsUpTo(S, n - 1)
         IN shorter \cup {Append(s, x) : s \in {q \in shorter : Len(q) = n - 1}, x \in S}

\* avg_cost = 10, support_price = 8, base_price = 12 under ShortPeriods,
\* with current_price 9, 10 and 8; and an accepted series whose distance
\* to the base line is 14.375 and, in doubles, a little less
BoundaryRows ==
    {<<Bar(0, 0), Bar(15, 1), Bar(9, 5)>>,
     <<Bar(0, 2), Bar(14, 5), Bar(10, 1)>>,
     <<Bar(0, 0), Bar(16, 1), Bar(8, 3)>>,
     <<Bar(50, 1), Bar(103, 10), Bar(80, 1)>>}

\* Twenty rows: fifteen old ones at close c2 with volume old_volume, then
\* five of volume 1 whose last three closes are c1, c2, c3
LongRows(c1, c2, c3, old_volume) ==
    [i \in 1..20 |->
        IF i <= 15 THEN Bar(c2, old_volume)
        ELSE IF i = 18 THEN Bar(c1, 1)
        ELSE IF i = 20 THEN Bar(c3, 1)
        ELSE Bar(c2, 1)]

SortSeries ==
    {LongRows(0, 2000, 1001, 1), LongRows(0, 1000, 501, 0),
     LongRows(0, 4, 3, 1), LongRows(0, 4, 3, 0)}

\* len rows: the first split ones are old, the others have closes 1, 4, 3
\* in turn and volumes recent_volume and twice recent_volume in turn
ChipRows(len, split, old, recent_volume) ==
    [i \in 1..len |->
        IF i <= split THEN old
        ELSE Bar(<<1, 4, 3>>[(i % 3) + 1], recent_volume * (1 + (i % 2)))]

ChipSeries ==
    {ChipRows(len, split, old, recent_volume) :
        len \in (RecentDays - 1)..MaxChipLen, split \in {0, 1, 2, 5},
        old \in {Bar(9, 1), Bar(1, 3)}, recent_volume \in {0, 1, 2}}

\* Series one row short of the default min_data_length, and of that length
DefaultLengthSeries ==
    {ChipRows(len, 0, Bar(9, 1), 1) : len \in {DefaultConfig.min_data_length - 1,
                                                DefaultConfig.min_data_length}}

NoDuplicates(s) == \A i, j \in 1..Len(s) : i # j => s[i] # s[j]
Rotate(s, k) == [i \in 1..Len(s) |-> s[((i + k - 1) % Len(s)) + 1]]

----------------------------------------------------------------------------
(* Initial states *)

NewMain(calls) ==
    [pc |-> "idle", calls_left |-> calls, universe_failed |-> FALSE,
     stock_list |-> <<>>, results |-> <<>>, completed |-> 0, total_chunks |-> 0,
     progress |-> <<>>, outcome |-> "none", returned |-> None,
     error_logged |-> FALSE]

InitScreener ==
    /\ disk = [code \in AllCodes |-> Absent]
    /\ statistics = NewStatistics
    /\ performance_stats = NoTimings
    /\ task = <<>>
    /\ visited = [code \in AllCodes |-> 0]
    /\ worker = NewWorker

InitRest ==
    /\ InitScreener
    /\ main = NewMain(1)

\* Concurrent runs: a few symbols, every chunk size, a pool of one thread
\* and the largest pool
Init ==
    /\ config \in {Config(cs, mw, Retries, ShortDataLength, ShortPeriods, DefaultSwitches) :
                      cs \in 1..MaxChunkSize, mw \in {1, MaxWorkers}}
    /\ catalog \in {SubSeq(Rotate(MainRing, k), 1, n) :
                       k \in 0..(Len(MainRing) - 1), n \in 1..MaxCatalog}
    /\ market = PoolMarket
    /\ faults = MaxFaults
    /\ InitRest

\* Calculator runs: one symbol, every bounded series and period map
InitCalc ==
    /\ config \in {Config(DefaultChunkSize, 1, Retries, ShortDataLength, ma, DefaultSwitches) :
                      ma \in PeriodChoices}
    /\ catalog = <<StockA>>
    /\ market \in {[PoolMarket EXCEPT ![StockA.code] = Frame(rows)] :
                      rows \in SeqsUpTo(Bars, MaxLen) \cup BoundaryRows}
    /\ faults = 0
    /\ InitRest

\* Filter runs: every catalog over the pool and every switch combination
InitFilter ==
    /\ config \in {Config(DefaultChunkSize, 1, Retries, ShortDataLength, ShortPeriods,
                             Switches(a, b, c, d)) :
                      a \in BOOLEAN, b \in BOOLEAN, c \in BOOLEAN, d \in BOOLEAN}
    /\ catalog \in {s \in SeqsUpTo(FilterPool, MaxFilterCatalog) :
                       s # <<>> /\ NoDuplicates(s)}
    /\ market = PoolMarket
    /\ faults = 0
    /\ InitRest

\* Fetch runs: one symbol, every configured retry_times, several failures
InitFetch ==
    /\ config \in {Config(DefaultChunkSize, 1, rt, ShortDataLength, ShortPeriods,
                             DefaultSwitches) : rt \in 1..MaxRetryTimes}
    /\ catalog \in {<<x>> : x \in FetchPool}
    /\ market = PoolMarket
    /\ faults = MaxFetchFaults
    /\ InitRest

\* Repeated runs: screen_stocks is called MaxRuns times on one screener
InitRuns ==
    /\ config \in {Config(cs, 1, Retries, ShortDataLength, ShortPeriods,
                             DefaultSwitches) : cs \in {1, 2}}
    /\ catalog \in {<<StockA>>, <<StockR>>, <<StockA, StockR>>, <<StockU, StockA>>}
    /\ market = PoolMarket
    /\ faults = 1
    /\ InitScreener
    /\ main = NewMain(MaxRuns)

\* Sorting runs: symbols with twenty rows each, accepted with price
\* positions and volume ratios that are close or equal
InitSort ==
    /\ config \in {Config(cs, 2, Retries, ShortDataLength, ShortPeriods,
                             DefaultSwitches) : cs \in {1, 2}}
    /\ catalog \in {<<StockA, StockM>>, <<StockM, StockA>>, <<StockZ, StockM, StockA>>}
    /\ market \in {[PoolMarket EXCEPT ![StockA.code] = Frame(a),
                                       ![StockM.code] = Frame(m),
                                       ![StockZ.code] = Frame(z)] :
                      a \in SortSeries, m \in SortSeries, z \in {LongRows(0, 4, 3, 0)}}
    /\ faults = 0
    /\ InitRest

\* Cost-distribution runs: one symbol, series around RecentDays rows long
\* and series around the default min_data_length, under short settings and
\* under the default configuration
InitChip ==
    /\ config \in {Config(cs, 1, Retries, ShortDataLength, ShortPeriods,
                             DefaultSwitches) : cs \in {1, 2}}
                   \cup {DefaultConfig}
    /\ catalog = <<StockA>>
    /\ market \in {[PoolMarket EXCEPT ![StockA.code] = Frame(rows)] :
                      rows \in ChipSeries \cup DefaultLengthSeries}
    /\ faults = 0
    /\ InitRest

Spec == Init /\ [][Next]_vars
SpecChip == InitChip /\ [][Next]_vars
SpecRuns == InitRuns /\ [][Next]_vars
SpecSort == InitSort /\ [][Next]_vars
SpecCalc == InitCalc /\ [][Next]_vars
SpecFilter == InitFilter /\ [][Next]_vars
SpecFetch == InitFetch /\ [][Next]_vars

----------------------------------------------------------------------------
(* Properties *)

FetchReturned(c) == Running(c) /\ task[c].local.pc # "chip" /\ task[c].local.pc # "penta"
LastFetch(c) == IF task[c].local.df2.kind # "none" THEN task[c].local.df2 ELSE task[c].local.df1

\* C1 -- Retry bound: whatever retry_times the configuration sets, a fetch
\* that finds no cache entry and whose every upstream call raises calls the
\* service exactly retry_times times and then raises: it is never still
\* retrying after retry_times failures, and once it has raised it has made
\* retry_times calls.
C1_RetryBound ==
    \A c \in DOMAIN task :
        (Running(c) /\ disk[Entry(c).code].kind = "absent") =>
            /\ task[c].local.attempt < config.retry_times
            /\ (FetchReturned(c) /\ LastFetch(c).kind = "error") =>
                   task[c].local.calls = config.retry_times

\* C2 -- Fetch idempotence: once the second of two consecutive fetches of
\* a symbol has ended, and the first returned a series, the second returned
\* the same series and called the upstream service zero times.
C2_FetchIdempotent ==
    \A c \in DOMAIN task :
        (Running(c) /\ FetchReturned(c) /\ task[c].local.df1.kind = "series"
                    /\ task[c].local.chip_data.kind # "none") =>
            /\ task[c].local.df2 = task[c].local.df1
            /\ task[c].local.calls = 0

RunOver == main.pc = "done" /\ task # <<>>

\* C3 -- No lost statistics updates: when every chunk has completed,
\* processed + failed is the number of symbols of the filtered universe and
\* succeeded is the number of accepted records collected.
C3_NoLostUpdates ==
    RunOver =>
        /\ statistics.processed_stocks + statistics.failed_stocks
               = statistics.filtered_stocks
        /\ statistics.successful_stocks = Len(main.results)

\* C4 -- A symbol whose fetch fails after its retries yields no record and
\* adds one to the failed counter: after a run of a single chunk (no two
\* threads update a counter), failed counts at least the symbols the
\* upstream service never answers, and none of them has a record.
C4_FetchFailureCountedFailed ==
    (RunOver /\ Len(task) = 1) =>
        /\ statistics.failed_stocks >=
               Cardinality({i \in 1..Len(task[1].chunk) :
                               market[task[1].chunk[i].code].kind = "unavailable"})
        /\ \A k \in 1..Len(main.results) :
               market[main.results[k].code].kind # "unavailable"

\* C5 -- Per-symbol error containment: no chunk ever ends by an exception
\* (every future yields a result list), a chunk that has ended has gone
\* through every one of its symbols, and when the run is over every chunk
\* has been collected.
C5_ErrorContained ==
    /\ \A c \in DOMAIN task :
          /\ task[c].state \in {"queued", "running", "finished", "collected"}
          /\ task[c].state \in {"finished", "collected"} =>
                 \A i \in 1..Len(task[c].chunk) : visited[task[c].chunk[i].code] = 1
    /\ RunOver =>
          /\ \A c \in DOMAIN task : task[c].state = "collected"
          /\ main.completed = Len(task)

\* The first symbol of the only chunk raised (it is the one counted as
\* failed) and the worker has gone on to the second
C5_Witness ==
    /\ Len(task) = 1
    /\ task[1].state = "running"
    /\ task[1].i = 2
    /\ visited[task[1].chunk[2].code] = 1
    /\ statistics.failed_stocks = 1
    /\ statistics.processed_stocks = 0

\* The catalog rows no enabled exclusion matches, in catalog order
Excluded(entry, filter_name) ==
    CASE filter_name = "exclude_st" -> NameHasST(entry.name)
      [] filter_name = "exclude_gem" -> StartsWith(entry.code, <<3, 0, 0>>)
      [] filter_name = "exclude_star" -> StartsWith(entry.code, <<6, 8, 8>>)
      [] filter_name = "exclude_bse" -> StartsWith(entry.code, <<8>>)
Kept(entry) ==
    \A f \in FilterNames : config.filter_switches[f] => ~Excluded(entry, f)
FilteredUniverse == SelectSeq(catalog, Kept)
HasRecord(code) == \E k \in 1..Len(main.results) : main.results[k].code = code

\* C6 -- Chunking completeness: the chunks submitted, in order, concatenate
\* to the filtered universe (every symbol once, none missing), no chunk is
\* longer than chunk_size, and when the run is over analyze_single_stock
\* has been called exactly once for each symbol of the filtered universe.
C6_ChunkingComplete ==
    task # <<>> =>
        /\ Flatten([k \in DOMAIN task |-> task[k].chunk]) = FilteredUniverse
        /\ \A k \in DOMAIN task : Len(task[k].chunk) <= config.chunk_size
        /\ RunOver =>
               \A code \in AllCodes :
                   visited[code] =
                       IF \E i \in 1..Len(FilteredUniverse) : FilteredUniverse[i].code = code
                       THEN 1 ELSE 0

\* Three symbols in chunks of two: a full chunk and a remainder, all done
C6_Witness ==
    /\ RunOver
    /\ Len(task) = 2
    /\ Len(task[1].chunk) = 2
    /\ Len(task[2].chunk) = 1
    /\ config.chunk_size = 2

\* The selection rule stated on the series itself, in integers:
\* close[-1] * sum(volume) < sum(volume * close), and close[-1] against the
\* sums of the last ma60 and ma20 closes
DirectAccept(rows, cfg) ==
    /\ Len(rows) >= 1
    /\ Len(rows) >= cfg.min_data_length
    /\ Len(rows) >= cfg.ma.ma60
    /\ Len(rows) >= cfg.ma.ma20
    /\ SumSeq(Volumes(rows)) > 0
    /\ rows[Len(rows)].close * SumSeq(Volumes(rows)) < SumSeq(Notionals(rows))
    /\ rows[Len(rows)].close * cfg.ma.ma60 > SumSeq(Tail_n(Closes(rows), cfg.ma.ma60))
    /\ rows[Len(rows)].close * cfg.ma.ma20 < SumSeq(Tail_n(Closes(rows), cfg.ma.ma20))

\* C7 -- Selection rule: a symbol gets a Screening Record iff
\* current_price < avg_cost, current_price > support_price and
\* current_price < base_price, all strict; with avg_cost 10, support 8 and
\* base 12 the price 9 is accepted, 10 and 8 are rejected.
C7_SelectionRule ==
    /\ Accepts(Rat(9, 1), Rat(10, 1), Rat(8, 1), Rat(12, 1))
    /\ ~Accepts(Rat(10, 1), Rat(10, 1), Rat(8, 1), Rat(12, 1))
    /\ ~Accepts(Rat(8, 1), Rat(10, 1), Rat(8, 1), Rat(12, 1))
    /\ RunOver =>
           /\ Len(main.results) <= Len(FilteredUniverse)
           /\ \A i \in 1..Len(FilteredUniverse) :
                  LET code == FilteredUniverse[i].code
                  IN market[code].kind = "series" =>
                         (HasRecord(code) <=> DirectAccept(market[code].rows, config))

\* The series with avg_cost 10, support 8, base 12 and price 9 was accepted
C7_Witness ==
    /\ RunOver
    /\ market[StockA.code] = Frame(<<Bar(0, 0), Bar(15, 1), Bar(9, 5)>>)
    /\ config.ma = ShortPeriods
    /\ Len(main.results) = 1
    /\ main.results[1].code = StockA.code
    /\ main.results[1].avg_cost.n = 10 * main.results[1].avg_cost.d
    /\ main.results[1].support_price.n = 8 * main.results[1].support_price.d
    /\ main.results[1].base_price.n = 12 * main.results[1].base_price.d

\* C8 -- For every accepted record the denominator base_price -
\* support_price is a finite number other than zero, and price_position is
\* (current_price - support_price) / (base_price - support_price), a finite
\* number in [0, 1].
C8_PricePosition ==
    \A k \in 1..Len(main.results) :
        LET r == main.results[k]
            num == RatSub(r.current_price, r.support_price)
            den == RatSub(r.base_price, r.support_price)
            pp == r.price_position
        IN /\ IsFinite(den) /\ den.n # 0
           /\ IsFinite(num)
           /\ IsFinite(pp)
           /\ pp.n * (num.d * den.n) = pp.d * (num.n * den.d)
           /\ 0 <= pp.n /\ pp.n <= pp.d

\* An accepted record whose price lies strictly between support and base
C8_Witness ==
    \E k \in 1..Len(main.results) :
        /\ IsFinite(main.results[k].price_position)
        /\ 0 < main.results[k].price_position.n
        /\ main.results[k].price_position.n < main.results[k].price_position.d

NoSignalSeries(rows, cfg) ==
    Len(rows) < cfg.min_data_length \/ SumSeq(Volumes(rows)) = 0

\* C9 -- No-signal outcomes: for a series shorter than min_data_length or
\* of total volume 0 the cost-distribution calculator returns None, the
\* symbol gets no record and goes on to be counted as processed, never as
\* failed; after the run it has no record and failed is 0.
C9_NoSignal ==
    /\ \A c \in DOMAIN task :
          (Running(c) /\ task[c].local.df1.kind = "series"
                      /\ NoSignalSeries(task[c].local.df1.rows, config)) =>
              /\ task[c].local.chip_data = None
              /\ task[c].local.result = None
              /\ task[c].local.pc \in {"proc_read", "proc_write"}
    /\ (RunOver /\ Len(FilteredUniverse) = 1
                /\ market[FilteredUniverse[1].code].kind = "series"
                /\ NoSignalSeries(market[FilteredUniverse[1].code].rows, config)) =>
           /\ main.results = <<>>
           /\ statistics.failed_stocks = 0
           /\ statistics.processed_stocks = 1

\* A run over one symbol with enough rows, all of volume 0
C9_Witness ==
    /\ RunOver
    /\ Len(FilteredUniverse) = 1
    /\ market[FilteredUniverse[1].code].kind = "series"
    /\ Len(market[FilteredUniverse[1].code].rows) >= config.min_data_length
    /\ SumSeq(Volumes(market[FilteredUniverse[1].code].rows)) = 0
    /\ main.results = <<>>
    /\ statistics.processed_stocks = 1
    /\ statistics.failed_stocks = 0

\* Rows of the catalog that reach stage k: no earlier enabled stage excludes them
CountBefore(k) ==
    Cardinality({i \in 1..Len(catalog) :
                    \A j \in 1..(k - 1) :
                        config.filter_switches[FilterOrder[j]] =>
                            ~Excluded(catalog[i], FilterOrder[j])})

\* C10 -- Filter conservation: once get_stock_list has run, each enabled
\* stage's recorded remaining is the number of rows that reached the stage
\* minus its recorded removed, and total_stocks - filtered_stocks is the sum
\* of the removed counts of the stages run.
C10_FilterConservation ==
    (main.pc # "idle" /\ statistics.total_stocks > 0) =>
        /\ \A k \in 1..Len(FilterOrder) :
               config.filter_switches[FilterOrder[k]] =>
                   LET d == statistics.filtered_details[FilterOrder[k]]
                   IN /\ d.kind = "detail"
                      /\ d.removed >= 0
                      /\ d.remaining = CountBefore(k) - d.removed
        /\ statistics.total_stocks - statistics.filtered_stocks =
               SumSeq([k \in 1..Len(FilterOrder) |->
                          IF config.filter_switches[FilterOrder[k]]
                          THEN statistics.filtered_details[FilterOrder[k]].removed
                          ELSE 0])

\* Two enabled stages have each removed a row
C10_Witness ==
    /\ main.pc # "idle"
    /\ statistics.filtered_details.exclude_st.kind = "detail"
    /\ statistics.filtered_details.exclude_st.removed >= 1
    /\ statistics.filtered_details.exclude_gem.kind = "detail"
    /\ statistics.filtered_details.exclude_gem.removed >= 1
    /\ statistics.filtered_stocks >= 1

\* C11 -- Filter result: for every combination of the switches the list
\* get_stock_list returns (to screen_stocks and to the worker) is the
\* catalog rows that match no enabled predicate, in catalog order; the
\* count recorded is its length; a disabled switch records no removal; and
\* with only the GEM exclusion on, [600000 A, 300001 B] becomes [600000 A].
C11_FilterResult ==
    /\ RunFilters(1, <<StockA, StockB>>, NoDetails, Switches(FALSE, TRUE, FALSE, FALSE)).df
           = <<StockA>>
    /\ (main.pc # "idle" /\ ~main.universe_failed) =>
           /\ main.stock_list = FilteredUniverse
           /\ statistics.filtered_stocks = Len(FilteredUniverse)
           /\ \A f \in FilterNames :
                  ~config.filter_switches[f] => statistics.filtered_details[f] = None
    /\ worker.pc \in {"check", "analyze", "after", "postcheck"} =>
           worker.frame.chunk = FilteredUniverse

\* The catalog of the example, filtered with only the GEM exclusion on
C11_Witness ==
    /\ main.pc # "idle"
    /\ catalog = <<StockA, StockB>>
    /\ config.filter_switches = Switches(FALSE, TRUE, FALSE, FALSE)
    /\ main.stock_list = <<StockA>>
    /\ statistics.filtered_details.exclude_gem = Detail(1, 1)

NumEqual(a, b) == ~RatLess(a, b) /\ ~RatLess(b, a)

\* The rows of a table are in ascending order of the numeric
\* price_position of their records, rows of equal price_position in
\* descending order of numeric volume_ratio
NumericallySorted(table, results) ==
    \A i, j \in 1..Len(table.rows) :
        i < j =>
            LET a == results[table.rows[i].index]
                b == results[table.rows[j].index]
            IN /\ ~RatLess(b.price_position, a.price_position)
               /\ NumEqual(a.price_position, b.price_position) =>
                      ~RatLess(a.volume_ratio, b.volume_ratio)

\* C12 -- Result ordering: the table a run returns is sorted ascending by
\* the numeric value of price_position, and of two records with equal
\* price_position the one with the higher numeric volume_ratio comes first.
C12_SortedNumerically ==
    /\ main.outcome = "table" => NumericallySorted(main.returned, main.results)
    /\ worker.signal = "result_ready" => NumericallySorted(worker.table, worker.results)

\* C13 -- A run that fails to fetch the universe returns something else
\* than the empty frame a run without accepted symbol returns.
C13_EmptyDistinguishable ==
    (main.pc = "done" /\ main.universe_failed) => main.returned # EmptyFrame

\* C14 -- Run termination: a run that has ended has ended cleanly:
\* screen_stocks by returning a table or an empty frame, never by raising;
\* the worker with a result, a status or an error signal.
C14_RunEndsCleanly ==
    /\ main.pc = "done" =>
           /\ main.outcome \in {"table", "empty"}
           /\ main.returned.kind = "frame"
           /\ (main.outcome = "table") = (main.returned.rows # <<>>)
    /\ worker.pc = "done" =>
           worker.signal \in {"result_ready", "status_no_candidates",
                              "status_cancelled", "error_no_universe",
                              "error_run_failed"}

\* What holds once a stop has been requested in a run of the worker and
\* the loop stood at symbol stop_i
StopTakesEffect ==
    /\ worker.pc = "analyze" => worker.frame.i = worker.stop_i
    /\ worker.pc # "postcheck"
    /\ \A j \in 1..Len(worker.frame.chunk) :
           j > worker.stop_i => visited[worker.frame.chunk[j].code] = 0
    /\ worker.pc \in {"after", "done"} =>
           /\ worker.processed_stocks + worker.failures_logged = worker.stop_i
           /\ worker.frame.i = worker.stop_i + 1
    /\ worker.pc = "done" =>
           /\ worker.signal = "status_cancelled"
           /\ worker.table = None

\* C15 (as claimed) -- after a stop is requested at any point of a run, the
\* symbol being analyzed completes, no further symbol is started, and the
\* run ends as cancelled with no table emitted.
C15_StopEndsCancelled ==
    worker.stop_requested => StopTakesEffect

\* C15 (amended) -- the same for a stop requested in the worker's run
\* before the stop check that follows the loop, when the run gets a
\* universe that is not empty.  A run that gets none ends with an error
\* signal, with no symbol analyzed and no table: that of a failed run when
\* the stop came before the screener was made and its constructor raised,
\* that of an empty universe when the stop came before the catalog was
\* answered.  A stop requested after the check that follows the loop is
\* not read: the run ends as one without a stop does, with the status of
\* a run without candidates or with the table.
C15_StopBeforeLastCheck ==
    /\ (worker.stop_requested /\ worker.stop_pc # "postcheck") =>
           IF worker.pc = "done" /\ worker.frame.chunk = <<>>
           THEN /\ \/ /\ worker.signal = "error_run_failed"
                      /\ worker.stop_pc = "constructing"
                      /\ ~worker.screener
                   \/ /\ worker.signal = "error_no_universe"
                      /\ worker.stop_pc \in {"constructing", "listing"}
                      /\ worker.screener
                /\ worker.table = None
                /\ \A code \in AllCodes : visited[code] = 0
           ELSE StopTakesEffect
    /\ (worker.stop_requested /\ worker.stop_pc = "postcheck"
                              /\ worker.pc = "done") =>
           /\ worker.stop_i = Len(worker.frame.chunk)
           /\ worker.signal = IF worker.results = <<>>
                              THEN "status_no_candidates" ELSE "result_ready"
           /\ (worker.table = None) = (worker.results = <<>>)

\* The stop came while the first of several symbols was being analyzed; the
\* run went through that symbol, started no other, and ended as cancelled
C15_Witness ==
    /\ worker.pc = "done"
    /\ worker.stop_requested
    /\ worker.stop_pc = "analyze"
    /\ worker.stop_i = 1
    /\ Len(worker.frame.chunk) >= 2
    /\ worker.processed_stocks = 1
    /\ visited[worker.frame.chunk[1].code] = 1
    /\ visited[worker.frame.chunk[2].code] = 0
    /\ worker.signal = "status_cancelled"

\* x < y for doubles x and y
DblLess(x, y) == DblAdd(y, [x EXCEPT !.s = 0 - @]).s > 0

\* The report p made when the i-th of total_chunks chunks was collected,
\* after the report prev: it is i / total_chunks as a percentage to
\* within one thousandth, at most 100, 100 when i is total_chunks,
\* and greater than prev
ProgressReport(p, prev, i, total_chunks) ==
    /\ DblCmp(p, 100000 * i - total_chunks, 1000 * total_chunks) >= 0
    /\ DblCmp(p, 100000 * i + total_chunks, 1000 * total_chunks) <= 0
    /\ DblCmp(p, 100, 1) <= 0
    /\ i = total_chunks => DblCmp(p, 100, 1) = 0
    /\ DblLess(prev, p)

C17_GuardAfterSymbol ==
    /\ \A c \in DOMAIN task :
           (task[c].state = "running" /\ task[c].local.guard_at # "none") =>
               task[c].local.pc \notin {"chip", "penta"}
    /\ (worker.pc = "analyze" /\ worker.frame.local.guard_at # "none") =>
           worker.frame.local.pc \notin {"chip", "penta"}

CacheFailureOnly(e) == e # {} /\ "upstream" \notin e

\* C18 -- Cache I/O failures are non-fatal: a fetch attempt that met a
\* cache read or write failure and no upstream failure returned the series
\* of the upstream service (after a read failure, by an upstream call of
\* that attempt); it was not retried, did not raise, and the symbol is not
\* failed; a failed write leaves no readable cache file: none, or one that
\* cannot be read.
C18_CacheFailureNonFatal ==
    \A c \in DOMAIN task :
        (task[c].state = "running" /\ CacheFailureOnly(task[c].local.e)) =>
            LET l == task[c].local
                df == IF l.pc = "penta" THEN l.df1 ELSE LastFetch(c)
            IN /\ l.pc \notin {"chip", "fail_read", "fail_write"}
               /\ l.pc = "penta" => l.attempt = 0
               /\ df = Frame(market[Entry(c).code].rows)
               /\ ("read" \in l.e /\ l.pc # "penta") => l.calls = l.attempt + 1
               /\ (("write" \in l.e \/ "truncate" \in l.e) /\ "read" \notin l.e) =>
                      disk[Entry(c).code].kind \in {"absent", "corrupt"}
               /\ "truncate" \in l.e => disk[Entry(c).code].kind = "corrupt"

\* A fetch whose cache read failed and whose cache write failed as well
C18_Witness ==
    \E c \in DOMAIN task :
        /\ task[c].state = "running"
        /\ task[c].local.e = {"read", "write"}
        /\ task[c].local.pc \in {"succ_read", "proc_read"}
        /\ task[c].local.df2.kind = "series"
        /\ task[c].local.calls = 1

\* C19 -- Statistics reset: at the end of a run of screen_stocks the timing
\* histogram holds entries of that run only (at most one analysis entry
\* per symbol of the run), and after a run whose universe fetch failed the
\* total, the filtered count and the per-filter details are those of an
\* empty universe.
C19_StatisticsReset ==
    main.pc = "done" =>
        /\ performance_stats["analyze_single_stock"] <= Len(main.stock_list)
        /\ main.universe_failed =>
               /\ statistics.total_stocks = 0
               /\ statistics.filtered_stocks = 0
               /\ statistics.filtered_details = NoDetails

PositionIn(chunk, code) == CHOOSE j \in 1..Len(chunk) : chunk[j].code = code

\* C20 -- Within-chunk order: in every chunk the symbols before the current
\* one have been analyzed and none after it has been started; the records
\* of chunk_results are records of symbols of the chunk up to the current
\* one, in the order of the chunk.
C20_WithinChunkOrder ==
    \A c \in DOMAIN task :
        LET t == task[c]
        IN /\ \A j \in 1..Len(t.chunk) :
                  /\ j < t.i => visited[t.chunk[j].code] = 1
                  /\ j > t.i => visited[t.chunk[j].code] = 0
           /\ \A a \in 1..Len(t.chunk_results) :
                  /\ \E j \in 1..Len(t.chunk) :
                         j <= t.i /\ t.chunk[j].code = t.chunk_results[a].code
                  /\ \A b \in 1..Len(t.chunk_results) :
                         a < b => PositionIn(t.chunk, t.chunk_results[a].code)
                                      < PositionIn(t.chunk, t.chunk_results[b].code)

\* The second chunk was collected first; the first chunk ended with two
\* records, in the order of its symbols
C20_Witness ==
    /\ Len(task) = 2
    /\ task[2].state = "collected"
    /\ task[1].state = "finished"
    /\ Len(task[1].chunk_results) = 2
    /\ task[1].chunk_results[1].code = task[1].chunk[1].code
    /\ task[1].chunk_results[2].code = task[1].chunk[2].code

RunningChunks == {c \in DOMAIN task : task[c].state = "running"}

\* Symbols of the run whose analysis has begun, and symbols whose analysis
\* is over (those the loop of their chunk has moved past)
SymbolsStarted == Cardinality({code \in AllCodes : visited[code] >= 1})
SymbolsDone == SumSeq([c \in DOMAIN task |-> task[c].i - 1])

\* C21 -- Concurrency ceiling: during a run of screen_stocks at most
\* max_workers chunks are being processed, and the symbols in analysis (and
\* so the upstream calls in flight) are at most max_workers: in each chunk
\* at most the current symbol, and only in a chunk a pool thread is running.
C21_ConcurrencyCeiling ==
    main.pc = "collecting" =>
        /\ Cardinality(RunningChunks) <= config.max_workers
        /\ SymbolsStarted - SymbolsDone <= config.max_workers
        /\ SymbolsStarted - SymbolsDone <= Cardinality(RunningChunks)
        /\ \A c \in DOMAIN task :
               task[c].state = "queued" => visited[task[c].chunk[1].code] = 0

\* The pool is full: two chunks are running, each with a symbol in
\* analysis, and a third one waits in the queue
C21_Witness ==
    /\ main.pc = "collecting"
    /\ config.max_workers = 2
    /\ Cardinality(RunningChunks) = 2
    /\ SymbolsStarted - SymbolsDone = 2
    /\ \E c \in DOMAIN task : task[c].state = "queued"

\* C22 -- Empty filtered universe: when the catalog was fetched and every
\* entry of it is removed by the enabled filters, the run ends with the
\* no-candidates outcome and reports no error: screen_stocks returns the
\* empty frame without an error record, the worker ends with the
\* no-candidates status and not with the error signal.
C22_EmptyUniverseNotError ==
    /\ (main.pc = "done" /\ ~main.universe_failed /\ FilteredUniverse = <<>>) =>
           /\ main.outcome = "empty"
           /\ ~main.error_logged
    /\ (worker.pc = "done" /\ statistics.total_stocks > 0 /\ FilteredUniverse = <<>>) =>
           worker.signal = "status_no_candidates"

RatEq(a, b) == IsFinite(a) /\ IsFinite(b) /\ a.n * b.d = b.n * a.d

\* The frames of analyze_single_stock that hold a Cost-Distribution Result
ChipLocals ==
    {l \in {task[c].local : c \in DOMAIN task} \cup {worker.frame.local} :
        l.chip_data.kind = "chip"}

\* Sums over the last RecentDays rows, and over all rows
RecentNotional(rows) ==
    SumSeq([k \in 1..RecentDays |->
               rows[Len(rows) - RecentDays + k].volume
                   * rows[Len(rows) - RecentDays + k].close])
RecentVolume(rows) ==
    SumSeq([k \in 1..RecentDays |-> rows[Len(rows) - RecentDays + k].volume])
WholeNotional(rows) == SumSeq([k \in 1..Len(rows) |-> rows[k].volume * rows[k].close])
WholeVolume(rows) == SumSeq([k \in 1..Len(rows) |-> rows[k].volume])

\* C23 (as claimed) -- for a series of at least 20 records main_force_cost
\* is the number sum(volume x close) / sum(volume) over the last 20
\* records; for a shorter one it is avg_cost.
C23_MainForceCostIsRecentAverage ==
    \A l \in ChipLocals :
        LET rows == l.df1.rows
        IN IF Len(rows) >= RecentDays
           THEN RatEq(l.chip_data.main_force_cost,
                      RatDiv(Rat(RecentNotional(rows), 1), Rat(RecentVolume(rows), 1)))
           ELSE l.chip_data.main_force_cost = l.chip_data.avg_cost

\* C23 (amended) -- for a series of at least 20 records main_force_cost is
\* sum(volume x close) / sum(volume) over the last 20 records when their
\* total volume is positive and 0 when it is zero; for a shorter series it
\* is avg_cost, sum(volume x close) / sum(volume) over the whole series.
C23_MainForceCost ==
    \A l \in ChipLocals :
        LET rows == l.df1.rows
            mfc == l.chip_data.main_force_cost
        IN /\ IsFinite(mfc)
           /\ RatEq(l.chip_data.avg_cost, Rat(WholeNotional(rows), WholeVolume(rows)))
           /\ IF Len(rows) >= RecentDays
              THEN IF RecentVolume(rows) > 0
                   THEN mfc.n * RecentVolume(rows) = RecentNotional(rows) * mfc.d
                   ELSE mfc.n = 0
              ELSE mfc = l.chip_data.avg_cost

\* A series of more than 20 records whose last 20 have another average
\* cost than the whole series
C23_Witness ==
    \E l \in ChipLocals :
        /\ Len(l.df1.rows) > RecentDays
        /\ RecentVolume(l.df1.rows) > 0
        /\ RatEq(l.chip_data.main_force_cost,
                 Rat(RecentNotional(l.df1.rows), RecentVolume(l.df1.rows)))
        /\ ~RatEq(l.chip_data.main_force_cost, l.chip_data.avg_cost)

LongestPeriod(ma) == CHOOSE p \in {ma[l] : l \in MaLabels} : \A l \in MaLabels : ma[l] <= p

\* The frames of analyze_single_stock whose trend calculator has got its
\* series
TrendLocals ==
    {l \in {task[c].local : c \in DOMAIN task} \cup {worker.frame.local} :
        l.df2.kind = "series"}

\* C24 -- Trend Calculator history guard: whatever the period map, the
\* calculator returns no result for a series shorter than the longest
\* configured period, and every moving average of a result it returns is a
\* number computed from as many records as its period.
C24_TrendHistoryGuard ==
    \A l \in TrendLocals :
        LET pentagram_data == Pentagram(l.df2, config)
        IN /\ Len(l.df2.rows) < LongestPeriod(config.ma) => pentagram_data = None
           /\ pentagram_data.kind = "pentagram" =>
                  \A label \in MaLabels :
                      /\ Len(l.df2.rows) >= config.ma[label]
                      /\ IsFinite(pentagram_data.ma_values[label])

\* The Screening Records the calculators and the selection rule give for
\* the symbols of the filtered universe, from the series the service holds
ExpectedRecords ==
    {r \in {SelectRecord(FilteredUniverse[i],
                         ChipDistribution(market[FilteredUniverse[i].code], config),
                         Pentagram(market[FilteredUniverse[i].code], config)) :
                i \in 1..Len(FilteredUniverse)} :
        r.kind = "record"}

\* C25 -- Sequential and chunked runs agree: with the catalog fetched, no
\* environment failure and no stop taking effect, a run of screen_stocks
\* (any chunk size, pool size and completion order) and a run of the
\* worker's loop both end with exactly the records the series determine,
\* each once: the same set.
C25_SequentialChunkedAgree ==
    /\ (main.pc = "done" /\ ~main.universe_failed /\ faults = MaxFaults) =>
           /\ Range(main.results) = ExpectedRecords
           /\ Len(main.results) = Cardinality(ExpectedRecords)
    /\ (worker.pc = "done" /\ faults = MaxFaults
            /\ worker.signal \in {"result_ready", "status_no_candidates"}) =>
           /\ Range(worker.results) = ExpectedRecords
           /\ Len(worker.results) = Cardinality(ExpectedRecords)

\* A chunked run ended with two records, collected in the reverse of the
\* order of the universe, which is the order the sequential loop has
C25_Witness ==
    /\ main.pc = "done"
    /\ faults = MaxFaults
    /\ Len(main.results) = 2
    /\ Cardinality(ExpectedRecords) = 2
    /\ \E i, j \in 1..Len(FilteredUniverse) :
           /\ i < j
           /\ main.results[1].code = FilteredUniverse[j].code
           /\ main.results[2].code = FilteredUniverse[i].code

\* C26 -- A stop request is never lost: from the moment stop() has cleared
\* the flag of a constructed worker, be it before run() has begun, no step
\* of the run sets the flag again, none starts the analysis of another
\* symbol, and the run can only end as cancelled.
C26_StopNeverLost ==
    [][(~worker.is_running) =>
           /\ ~worker'.is_running
           /\ worker'.pc = "analyze" => worker.pc = "analyze"
           /\ worker'.pc = "done" => worker'.signal = "status_cancelled"]_vars

=============================================================================
